---- MODULE Spec2Model ----
(***************************************************************************)
(* The binder of rust-minsk (minsk/src/binding.rs): syntax tree -> bound   *)
(* tree, scopes, diagnostics and the session of successive                 *)
(* bind_global_scope calls.                                                *)
(*                                                                         *)
(* Encoding.  Option<T> is a sequence of length at most one (None = <<>>,  *)
(* Some(x) = <<x>>).  Object::Number(n) is [kind |-> "Number", value |-> n]*)
(* and Object::Boolean(b) is [kind |-> "Boolean", value |-> 1 or 0].       *)
(* Source spans are not modelled: a diagnostic is its kind, the text it    *)
(* names and the types it names.                                           *)
(*                                                                         *)
(* The recursive descent of the binder over statements is a step machine:  *)
(* one step per statement bound, per block entered and per block left.     *)
(* Expressions are bound by the recursive operator bind_expression, which  *)
(* threads the binder (scope and diagnostic bag) as `&mut self` does.      *)
(***************************************************************************)
EXTENDS Integers, Sequences, FiniteSets, TLC

\* ------------------------------------------------------------------------
\* Bounds of the model
\* ------------------------------------------------------------------------
MaxSubmissions == 3

MaxDepth == 2

MaxStatements == 5

MaxExprStatements == 3

\* ------------------------------------------------------------------------
\* Values, types, symbols
\* ------------------------------------------------------------------------
None == << >>

Some(x) == << x >>

ObjectKind == {"Number", "Boolean"}

Number(n) == [kind |-> "Number", value |-> n]

Boolean(b) == [kind |-> "Boolean", value |-> IF b THEN 1 ELSE 0]

VariableSymbol(name, is_read_only, kind) ==
    [name |-> name, is_read_only |-> is_read_only, kind |-> kind]

\* ------------------------------------------------------------------------
\* Syntax trees (the binder's input)
\* ------------------------------------------------------------------------
LiteralExpressionSyntax(value) == [kind |-> "LiteralExpression", value |-> value]

NameExpressionSyntax(identifier) == [kind |-> "NameExpression", identifier |-> identifier]

BinaryExpressionSyntax(left, operator_token, right) ==
    [kind |-> "BinaryExpression", left |-> left,
     operator_token |-> operator_token, right |-> right]

UnaryExpressionSyntax(operator_token, operand) ==
    [kind |-> "UnaryExpression", operator_token |-> operator_token, operand |-> operand]

ParenthesizedExpressionSyntax(expression) ==
    [kind |-> "ParenthesizedExpression", expression |-> expression]

AssignmentExpressionSyntax(identifier, expression) ==
    [kind |-> "AssignmentExpression", identifier |-> identifier, expression |-> expression]

ExpressionStatementSyntax(expression) ==
    [kind |-> "ExpressionStatement", expression |-> expression]

VariableDeclarationStatementSyntax(keyword, identifier, initializer) ==
    [kind |-> "VariableDeclarationStatement", keyword |-> keyword,
     identifier |-> identifier, initializer |-> initializer]

\* ------------------------------------------------------------------------
\* Operator tables
\* ------------------------------------------------------------------------
BoundBinaryOperator(syntax_kind, kind, left_type, right_type, result_type) ==
    [syntax_kind |-> syntax_kind, kind |-> kind, left_type |-> left_type,
     right_type |-> right_type, result_type |-> result_type]

BINARY_OPERATORS ==
    << BoundBinaryOperator("PlusToken", "Addition", "Number", "Number", "Number"),
       BoundBinaryOperator("MinusToken", "Subtraction", "Number", "Number", "Number"),
       BoundBinaryOperator("StarToken", "Multiplication", "Number", "Number", "Number"),
       BoundBinaryOperator("SlashToken", "Division", "Number", "Number", "Number"),
       BoundBinaryOperator("AmpersandAmpersandToken", "LogicalAnd", "Boolean", "Boolean", "Boolean"),
       BoundBinaryOperator("PipePipeToken", "LogicalOr", "Boolean", "Boolean", "Boolean"),
       BoundBinaryOperator("EqualsEqualsToken", "Equality", "Number", "Number", "Boolean"),
       BoundBinaryOperator("EqualsEqualsToken", "Equality", "Boolean", "Boolean", "Boolean"),
       BoundBinaryOperator("BangEqualsToken", "Inequality", "Number", "Number", "Boolean"),
       BoundBinaryOperator("BangEqualsToken", "Inequality", "Boolean", "Boolean", "Boolean") >>

BoundUnaryOperator(syntax_kind, kind, operand_type, result_type) ==
    [syntax_kind |-> syntax_kind, kind |-> kind,
     operand_type |-> operand_type, result_type |-> result_type]

UNARY_OPERATORS ==
    << BoundUnaryOperator("PlusToken", "Identity", "Number", "Number"),
       BoundUnaryOperator("MinusToken", "Negation", "Number", "Number"),
       BoundUnaryOperator("BangToken", "LogicalNegation", "Boolean", "Boolean") >>

\* The first table row matching the token and the operand types, if any.
BoundBinaryOperator_bind(syntax_kind, left_type, right_type) ==
    LET matching == {i \in DOMAIN BINARY_OPERATORS :
                        /\ BINARY_OPERATORS[i].syntax_kind = syntax_kind
                        /\ BINARY_OPERATORS[i].left_type = left_type
                        /\ BINARY_OPERATORS[i].right_type = right_type}
    IN  IF matching = {} THEN None
        ELSE Some(BINARY_OPERATORS[CHOOSE i \in matching : \A j \in matching : i <= j])

BoundUnaryOperator_bind(syntax_kind, operand_type) ==
    LET matching == {i \in DOMAIN UNARY_OPERATORS :
                        /\ UNARY_OPERATORS[i].syntax_kind = syntax_kind
                        /\ UNARY_OPERATORS[i].operand_type = operand_type}
    IN  IF matching = {} THEN None
        ELSE Some(UNARY_OPERATORS[CHOOSE i \in matching : \A j \in matching : i <= j])

\* ------------------------------------------------------------------------
\* Scope: the variables declared in it and the owned parent scope
\* ------------------------------------------------------------------------
BoundScope_new(parent) == [variables |-> {}, parent |-> parent]

\* try_declare: [declared |-> bool, scope |-> the scope afterwards]
try_declare(scope, variable) ==
    IF \E v \in scope.variables : v.name = variable.name
    THEN [declared |-> FALSE, scope |-> scope]
    ELSE [declared |-> TRUE,
          scope |-> [scope EXCEPT !.variables = @ \cup {variable}]]

RECURSIVE try_lookup(_, _)
try_lookup(scope, name) ==
    LET here == {v \in scope.variables : v.name = name}
    IN  IF here # {} THEN Some(CHOOSE v \in here : TRUE)
        ELSE IF scope.parent = None THEN None
        ELSE try_lookup(scope.parent[1], name)

get_declared_variables(scope) == scope.variables

\* ------------------------------------------------------------------------
\* Diagnostic bag: an ordered list, one record appended per report
\* ------------------------------------------------------------------------
DiagnosticBag_new == << >>

Diagnostic(kind, text, types) == [kind |-> kind, text |-> text, types |-> types]

report_undefined_binary_operator(diagnostics, text, left_type, right_type) ==
    Append(diagnostics, Diagnostic("UndefinedBinaryOperator", text, <<left_type, right_type>>))

report_undefined_unary_operator(diagnostics, text, operand_type) ==
    Append(diagnostics, Diagnostic("UndefinedUnaryOperator", text, <<operand_type>>))

report_undefined_name(diagnostics, name) ==
    Append(diagnostics, Diagnostic("UndefinedName", name, << >>))

report_cannot_assign(diagnostics, name) ==
    Append(diagnostics, Diagnostic("CannotAssign", name, << >>))

report_cannot_convert(diagnostics, from_type, to_type) ==
    Append(diagnostics, Diagnostic("CannotConvert", "", <<from_type, to_type>>))

report_variable_already_declared(diagnostics, name) ==
    Append(diagnostics, Diagnostic("VariableAlreadyDeclared", name, << >>))

\* ------------------------------------------------------------------------
\* Bound tree
\* ------------------------------------------------------------------------
BoundLiteralExpression(value) == [kind |-> "LiteralExpression", value |-> value]

BoundVariableExpression(variable) == [kind |-> "VariableExpression", variable |-> variable]

BoundAssignmentExpression(variable, expression) ==
    [kind |-> "AssignmentExpression", variable |-> variable, expression |-> expression]

BoundUnaryExpression(operator, operand) ==
    [kind |-> "UnaryExpression", operator |-> operator, operand |-> operand]

BoundBinaryExpression(left, operator, right) ==
    [kind |-> "BinaryExpression", left |-> left, operator |-> operator, right |-> right]

BoundBlockStatement(statements) == [kind |-> "BlockStatement", statements |-> statements]

BoundExpressionStatement(expression) ==
    [kind |-> "ExpressionStatement", expression |-> expression]

BoundVariableDeclarationStatement(variable, initializer) ==
    [kind |-> "VariableDeclarationStatement", variable |-> variable,
     initializer |-> initializer]

RECURSIVE get_type(_)
get_type(e) ==
    CASE e.kind = "BinaryExpression" -> e.operator.result_type
      [] e.kind = "UnaryExpression" -> e.operator.result_type
      [] e.kind = "LiteralExpression" -> e.value.kind
      [] e.kind = "VariableExpression" -> e.variable.kind
      [] e.kind = "AssignmentExpression" -> get_type(e.expression)

\* ------------------------------------------------------------------------
\* Binder: expressions.  Each operator takes the binder and returns the
\* binder afterwards together with the bound expression.
\* ------------------------------------------------------------------------
Binder_new(scope) == [diagnostics |-> DiagnosticBag_new, scope |-> scope]

Bound(binder, expression) == [binder |-> binder, expression |-> expression]

RECURSIVE bind_expression(_, _)

\* Variant: the right operand is the fallback.
bind_binary_expression_right(binder, e) ==
    LET l == bind_expression(binder, e.left)
        r == bind_expression(l.binder, e.right)
        left == l.expression
        right == r.expression
        operator == BoundBinaryOperator_bind(e.operator_token, get_type(left), get_type(right))
    IN  IF operator # None
        THEN Bound(r.binder, BoundBinaryExpression(left, operator[1], right))
        ELSE Bound([r.binder EXCEPT !.diagnostics =
                        report_undefined_binary_operator(@, e.operator_token,
                                                         get_type(left), get_type(right))],
                   right)

\* Variant: fail fast, the right operand is not bound once the left reported.
bind_binary_expression_failfast(binder, e) ==
    LET l == bind_expression(binder, e.left)
        r == bind_expression(l.binder, e.right)
        left == l.expression
        right == r.expression
        operator == BoundBinaryOperator_bind(e.operator_token, get_type(left), get_type(right))
    IN  IF l.binder.diagnostics # binder.diagnostics THEN l
        ELSE IF operator # None
        THEN Bound(r.binder, BoundBinaryExpression(left, operator[1], right))
        ELSE Bound([r.binder EXCEPT !.diagnostics =
                        report_undefined_binary_operator(@, e.operator_token,
                                                         get_type(left), get_type(right))],
                   left)

bind_binary_expression(binder, e) ==
    LET l == bind_expression(binder, e.left)
        r == bind_expression(l.binder, e.right)
        left == l.expression
        right == r.expression
        operator == BoundBinaryOperator_bind(e.operator_token, get_type(left), get_type(right))
    IN  IF operator # None
        THEN Bound(r.binder, BoundBinaryExpression(left, operator[1], right))
        ELSE Bound([r.binder EXCEPT !.diagnostics =
                        report_undefined_binary_operator(@, e.operator_token,
                                                         get_type(left), get_type(right))],
                   left)

\* Variant: the operator is resolved by its token alone.
bind_unary_expression_unchecked(binder, e) ==
    LET o == bind_expression(binder, e.operand)
        rows == {i \in DOMAIN UNARY_OPERATORS :
                    UNARY_OPERATORS[i].syntax_kind = e.operator_token}
    IN  Bound(o.binder,
              BoundUnaryExpression(UNARY_OPERATORS[CHOOSE i \in rows : TRUE], o.expression))

bind_unary_expression(binder, e) ==
    LET o == bind_expression(binder, e.operand)
        operand == o.expression
        operator == BoundUnaryOperator_bind(e.operator_token, get_type(operand))
    IN  IF operator # None
        THEN Bound(o.binder, BoundUnaryExpression(operator[1], operand))
        ELSE Bound([o.binder EXCEPT !.diagnostics =
                        report_undefined_unary_operator(@, e.operator_token, get_type(operand))],
                   operand)

bind_literal_expression(binder, e) == Bound(binder, BoundLiteralExpression(e.value))

bind_parenthesized_expression(binder, e) == bind_expression(binder, e.expression)

\* Variant: the fallback literal is emitted without a report.
bind_name_expression_silent(binder, e) ==
    LET variable == try_lookup(binder.scope, e.identifier)
    IN  IF variable # None
        THEN Bound(binder, BoundVariableExpression(variable[1]))
        ELSE Bound(binder, BoundLiteralExpression(Number(0)))

bind_name_expression(binder, e) ==
    LET name == e.identifier
        variable == try_lookup(binder.scope, name)
    IN  IF variable # None
        THEN Bound(binder, BoundVariableExpression(variable[1]))
        ELSE Bound([binder EXCEPT !.diagnostics = report_undefined_name(@, name)],
                   BoundLiteralExpression(Number(0)))

\* Variant: a type mismatch is reported but the Assignment node is emitted.
bind_assignment_expression_convert(binder, e) ==
    LET name == e.identifier
        x == bind_expression(binder, e.expression)
        expression == x.expression
        found == try_lookup(x.binder.scope, name)
        variable == found[1]
        d1 == IF variable.is_read_only
              THEN report_cannot_assign(x.binder.diagnostics, name)
              ELSE x.binder.diagnostics
        d2 == IF get_type(expression) # variable.kind
              THEN report_cannot_convert(d1, get_type(expression), variable.kind)
              ELSE d1
    IN  IF found = None
        THEN Bound([x.binder EXCEPT !.diagnostics = report_undefined_name(@, name)],
                   expression)
        ELSE Bound([x.binder EXCEPT !.diagnostics = d2],
                   BoundAssignmentExpression(variable, expression))

bind_assignment_expression(binder, e) ==
    LET name == e.identifier
        x == bind_expression(binder, e.expression)
        expression == x.expression
        found == try_lookup(x.binder.scope, name)
        variable == found[1]
        d1 == IF variable.is_read_only
              THEN report_cannot_assign(x.binder.diagnostics, name)
              ELSE x.binder.diagnostics
    IN  IF found = None
        THEN Bound([x.binder EXCEPT !.diagnostics = report_undefined_name(@, name)],
                   expression)
        ELSE IF get_type(expression) # variable.kind
        THEN Bound([x.binder EXCEPT !.diagnostics =
                        report_cannot_convert(d1, get_type(expression), variable.kind)],
                   expression)
        ELSE Bound([x.binder EXCEPT !.diagnostics = d1],
                   BoundAssignmentExpression(variable, expression))

bind_expression(binder, expression) ==
    CASE expression.kind = "BinaryExpression" -> bind_binary_expression(binder, expression)
      [] expression.kind = "UnaryExpression" -> bind_unary_expression(binder, expression)
      [] expression.kind = "LiteralExpression" -> bind_literal_expression(binder, expression)
      [] expression.kind = "ParenthesizedExpression" ->
            bind_parenthesized_expression(binder, expression)
      [] expression.kind = "NameExpression" -> bind_name_expression(binder, expression)
      [] expression.kind = "AssignmentExpression" ->
            bind_assignment_expression(binder, expression)

\* ------------------------------------------------------------------------
\* Binder: statements.  Each operator returns the binder afterwards together
\* with the bound statement.
\* ------------------------------------------------------------------------
BoundS(binder, statement) == [binder |-> binder, statement |-> statement]

bind_expression_statement(binder, s) ==
    LET x == bind_expression(binder, s.expression)
    IN  BoundS(x.binder, BoundExpressionStatement(x.expression))

\* Variant: a redeclaration replaces the symbol of the scope.
bind_variable_declaration_statement_replace(binder, s) ==
    LET name == s.identifier
        i == bind_expression(binder, s.initializer)
        variable == VariableSymbol(name, s.keyword = "LetKeyword", get_type(i.expression))
        d == try_declare(i.binder.scope, variable)
        others == {v \in i.binder.scope.variables : v.name # name}
    IN  BoundS([scope |-> [i.binder.scope EXCEPT !.variables = others \cup {variable}],
                diagnostics |-> IF ~d.declared
                                THEN report_variable_already_declared(i.binder.diagnostics, name)
                                ELSE i.binder.diagnostics],
               BoundVariableDeclarationStatement(variable, i.expression))

bind_variable_declaration_statement(binder, s) ==
    LET name == s.identifier
        i == bind_expression(binder, s.initializer)
        is_read_only == (s.keyword = "LetKeyword")
        variable == VariableSymbol(name, is_read_only, get_type(i.expression))
        d == try_declare(i.binder.scope, variable)
    IN  BoundS([scope |-> d.scope,
                diagnostics |-> IF ~d.declared
                                THEN report_variable_already_declared(i.binder.diagnostics, name)
                                ELSE i.binder.diagnostics],
               BoundVariableDeclarationStatement(variable, i.expression))

\* ------------------------------------------------------------------------
\* Global scope snapshots and the scope chain rebuilt from them
\* ------------------------------------------------------------------------
BoundGlobalScope(previous, diagnostics, variables, statement) ==
    [previous |-> previous, diagnostics |-> diagnostics,
     variables |-> variables, statement |-> statement]

\* The first loop of create_parent_scopes: p, p.previous, ... (newest first)
RECURSIVE push_previous(_)
push_previous(previous) ==
    IF previous = None THEN << >>
    ELSE << previous[1] >> \o push_previous(previous[1].previous)

RECURSIVE declare_all(_, _)
declare_all(scope, variables) ==
    IF variables = {} THEN scope
    ELSE LET v == CHOOSE v \in variables : TRUE
         IN  declare_all(try_declare(scope, v).scope, variables \ {v})

\* The second loop: pop the oldest snapshot, open a child scope, declare
\* the snapshot's variables in it.
RECURSIVE pop_stack(_, _)
pop_stack(stack, parent) ==
    IF stack = << >> THEN parent
    ELSE LET global == stack[Len(stack)]
             scope == declare_all(BoundScope_new(Some(parent)), global.variables)
         IN  pop_stack(SubSeq(stack, 1, Len(stack) - 1), scope)

\* Variant: the binder works in a fresh child of the rebuilt chain.
create_parent_scopes_child(previous) ==
    BoundScope_new(Some(pop_stack(push_previous(previous), BoundScope_new(None))))

create_parent_scopes(previous) ==
    pop_stack(push_previous(previous), BoundScope_new(None))

\* ------------------------------------------------------------------------
\* Inputs
\* ------------------------------------------------------------------------
Names == {"a", "b"}

Keywords == {"LetKeyword", "VarKeyword"}

One == LiteralExpressionSyntax(Number(1))

True == LiteralExpressionSyntax(Boolean(TRUE))

NameA == NameExpressionSyntax("a")

NameB == NameExpressionSyntax("b")

Literals == {One, True}

\* Statements submitted in the session specification
SessionExpressions == {NameA, NameB, BinaryExpressionSyntax(NameA, "PlusToken", One)}

SessionDeclarations ==
    {VariableDeclarationStatementSyntax(k, "a", i) : k \in Keywords, i \in Literals}
    \cup {VariableDeclarationStatementSyntax("LetKeyword", "b", One)}

\* Statements of the single-call specification
Operands == {One, True, NameA}

BinaryTokens == {"PlusToken", "AmpersandAmpersandToken"}

UnaryTokens == {"MinusToken", "BangToken"}

SimpleExpressions ==
    Operands \cup {NameB}
    \cup {BinaryExpressionSyntax(l, t, r) : l \in Operands, t \in BinaryTokens, r \in Operands}
    \cup {UnaryExpressionSyntax(t, o) : t \in UnaryTokens, o \in Operands}
    \cup {ParenthesizedExpressionSyntax(o) : o \in {One, NameA}}
    \cup {AssignmentExpressionSyntax(n, o) : n \in Names, o \in Operands}

\* Expressions that report a diagnostic in some scope, as operands
Faulty ==
    {NameB,
     BinaryExpressionSyntax(One, "PlusToken", True),
     UnaryExpressionSyntax("MinusToken", True),
     AssignmentExpressionSyntax("a", True),
     AssignmentExpressionSyntax("a", One)}

NestedExpressions ==
    {BinaryExpressionSyntax(l, "PlusToken", r) :
        l \in Faulty, r \in {NameB, BinaryExpressionSyntax(One, "PlusToken", True)}}
    \cup {AssignmentExpressionSyntax(n, f) : n \in Names, f \in Faulty}
    \cup {UnaryExpressionSyntax("MinusToken", f) : f \in Faulty}
    \cup {ParenthesizedExpressionSyntax(f) : f \in Faulty}

RichExpressions == SimpleExpressions \cup NestedExpressions

ExprDeclarations ==
    {VariableDeclarationStatementSyntax(k, n, i) :
        k \in Keywords, n \in Names, i \in Literals \cup {NameB}}

\* ------------------------------------------------------------------------
\* State
\* ------------------------------------------------------------------------
VARIABLES
    global_scope,     \* Option: the snapshot returned by the last call, kept by the driver
    previous,         \* Option: the `previous` argument of the current (or last) call
    pc,               \* "idle", "statement" (inside bind_statement), "collect"
    binder,           \* the Binder of the current call: diagnostics and scope
    frames,           \* open blocks, innermost last: the local `statements` of
                      \* bind_block_statement and the scope the block was entered in
    statement,        \* Option: the bound top-level statement
    last,             \* the last statement bound: its syntax, the binder before, the result
    submissions,      \* number of calls of bind_global_scope so far
    statements_bound, \* number of statements (blocks included) bound so far
    session_names     \* names declared by the top-level declarations of earlier calls

vars == << global_scope, previous, pc, binder, frames, statement, last,
           submissions, statements_bound, session_names >>

NoStep == [syntax |-> None, before |-> None, bound |-> None]

Init ==
    /\ global_scope = None
    /\ previous = None
    /\ pc = "idle"
    /\ binder = Binder_new(BoundScope_new(None))
    /\ frames = << >>
    /\ statement = None
    /\ last = NoStep
    /\ submissions = 0
    /\ statements_bound = 0
    /\ session_names = {}

\* bind_global_scope, up to the call of bind_statement.  The driver passes
\* the snapshot the preceding call returned.
BindGlobalScope(max) ==
    /\ pc = "idle"
    /\ submissions < max
    /\ previous' = global_scope
    /\ binder' = Binder_new(create_parent_scopes(global_scope))
    /\ pc' = "statement"
    /\ frames' = << >>
    /\ statement' = None
    /\ last' = NoStep
    /\ submissions' = submissions + 1
    /\ UNCHANGED << global_scope, statements_bound, session_names >>

\* A bound statement goes to the enclosing block's `statements`, or is the
\* top-level statement of the compilation unit.
Deliver(enclosing, st) ==
    IF enclosing = << >>
    THEN /\ statement' = Some(st)
         /\ pc' = "collect"
         /\ frames' = enclosing
    ELSE /\ frames' = [enclosing EXCEPT ![Len(enclosing)].statements = Append(@, st)]
         /\ UNCHANGED << statement, pc >>

BindStatement(s, r, max) ==
    /\ pc = "statement"
    /\ statements_bound < max
    /\ binder' = r.binder
    /\ Deliver(frames, r.statement)
    /\ last' = [syntax |-> Some(s), before |-> Some(binder), bound |-> Some(r.statement)]
    /\ statements_bound' = statements_bound + 1
    /\ UNCHANGED << global_scope, previous, submissions, session_names >>

BindExpressionStatement(s, max) ==
    BindStatement(s, bind_expression_statement(binder, s), max)

BindVariableDeclarationStatement(s, max) ==
    BindStatement(s, bind_variable_declaration_statement(binder, s), max)

\* bind_block_statement, before the loop: the current scope becomes the
\* parent of a new scope.
EnterBlock(max) ==
    /\ pc = "statement"
    /\ statements_bound < max
    /\ Len(frames) < MaxDepth
    /\ frames' = Append(frames, [statements |-> << >>, entered |-> binder.scope])
    /\ binder' = [binder EXCEPT !.scope = BoundScope_new(Some(binder.scope))]
    /\ last' = NoStep
    /\ statements_bound' = statements_bound + 1
    /\ UNCHANGED << global_scope, previous, pc, statement, submissions, session_names >>

\* Variant: the block is returned without taking the parent scope back.
ExitBlock_keep ==
    /\ pc = "statement"
    /\ frames # << >>
    /\ Deliver(SubSeq(frames, 1, Len(frames) - 1),
               BoundBlockStatement(frames[Len(frames)].statements))
    /\ last' = NoStep
    /\ UNCHANGED << binder, global_scope, previous, submissions, statements_bound,
                    session_names >>

\* bind_block_statement, after the loop: the parent is taken back as the
\* current scope and the block is returned.
ExitBlock ==
    /\ pc = "statement"
    /\ frames # << >>
    /\ binder' = [binder EXCEPT !.scope = binder.scope.parent[1]]
    /\ Deliver(SubSeq(frames, 1, Len(frames) - 1),
               BoundBlockStatement(frames[Len(frames)].statements))
    /\ last' = NoStep
    /\ UNCHANGED << global_scope, previous, submissions, statements_bound, session_names >>

\* bind_global_scope, after bind_statement returned.
ReturnGlobalScope ==
    /\ pc = "collect"
    /\ global_scope' = Some(BoundGlobalScope(None, binder.diagnostics,
                                             get_declared_variables(binder.scope),
                                             statement[1]))
    /\ pc' = "idle"
    /\ session_names' = IF statement[1].kind = "VariableDeclarationStatement"
                        THEN session_names \cup {statement[1].variable.name}
                        ELSE session_names
    /\ UNCHANGED << previous, binder, frames, statement, last, submissions, statements_bound >>

Next ==
    \/ BindGlobalScope(MaxSubmissions)
    \/ \E e \in SessionExpressions :
          BindExpressionStatement(ExpressionStatementSyntax(e), MaxStatements)
    \/ \E s \in SessionDeclarations : BindVariableDeclarationStatement(s, MaxStatements)
    \/ EnterBlock(MaxStatements)
    \/ ExitBlock
    \/ ReturnGlobalScope

Spec == Init /\ [][Next]_vars

\* A single call of bind_global_scope over the richer expressions.
NextExpr ==
    \/ BindGlobalScope(1)
    \/ \E e \in RichExpressions :
          BindExpressionStatement(ExpressionStatementSyntax(e), MaxExprStatements)
    \/ \E s \in ExprDeclarations : BindVariableDeclarationStatement(s, MaxExprStatements)
    \/ EnterBlock(MaxExprStatements)
    \/ ExitBlock
    \/ ReturnGlobalScope

SpecExpr == Init /\ [][NextExpr]_vars

\* ------------------------------------------------------------------------
\* Vocabulary of the properties
\* ------------------------------------------------------------------------
\* The variable sets of a scope chain, innermost first.
RECURSIVE ScopeChain(_)
ScopeChain(scope) ==
    << scope.variables >> \o
        (IF scope.parent = None THEN << >> ELSE ScopeChain(scope.parent[1]))

\* The symbol a name denotes in a chain: the one of the innermost scope
\* that declares the name.
Visible(scope, name) ==
    LET chain == ScopeChain(scope)
        declaring == {i \in DOMAIN chain : \E v \in chain[i] : v.name = name}
        innermost == CHOOSE i \in declaring : \A j \in declaring : i <= j
    IN  IF declaring = {} THEN None
        ELSE Some(CHOOSE v \in chain[innermost] : v.name = name)

\* The diagnostics a step appended.
Reported(after, before) == SubSeq(after, Len(before) + 1, Len(after))

Kinds(diagnostics) == [i \in DOMAIN diagnostics |-> diagnostics[i].kind]

StatementStep == last.syntax # None

LastSyntax == last.syntax[1]

LastBound == last.bound[1]

Before == last.before[1]

LastReported == Reported(binder.diagnostics, Before.diagnostics)

ExpressionStep(kind) ==
    /\ StatementStep
    /\ LastSyntax.kind = "ExpressionStatement"
    /\ LastSyntax.expression.kind = kind

TopLevelStep == StatementStep /\ pc = "collect"

\* ------------------------------------------------------------------------
\* Session properties (specification Spec)
\* ------------------------------------------------------------------------
APlusOne == BinaryExpressionSyntax(NameA, "PlusToken", One)

\* C1: session incrementality.  When every call receives the snapshot the
\* preceding call returned, a name declared by the top-level declaration of
\* any earlier submission is resolved to a Variable expression by a name
\* reference of the newest submission without any diagnostic, and a pass
\* whose statement is that reference, or `a + 1` over a Number `a`, reports
\* zero diagnostics.
C1_SessionIncrementality ==
    /\ (/\ ExpressionStep("NameExpression")
        /\ LastSyntax.expression.identifier \in session_names) =>
          /\ LastBound.expression.kind = "VariableExpression"
          /\ LastBound.expression.variable.name = LastSyntax.expression.identifier
          /\ LastReported = << >>
          /\ TopLevelStep => binder.diagnostics = << >>
    /\ (/\ TopLevelStep
        /\ LastSyntax = ExpressionStatementSyntax(APlusOne)
        /\ "a" \in session_names) =>
          LET bound == statement[1].expression
              left == IF bound.kind = "BinaryExpression" THEN bound.left ELSE bound
          IN  /\ left.kind = "VariableExpression"
              /\ left.variable.name = "a"
              /\ \A i \in DOMAIN binder.diagnostics :
                    binder.diagnostics[i].kind # "UndefinedName"
              /\ left.variable.kind = "Number" =>
                    /\ binder.diagnostics = << >>
                    /\ bound.kind = "BinaryExpression"
                    /\ bound.operator.kind = "Addition"
                    /\ bound.right = BoundLiteralExpression(Number(1))

\* The third submission `a + 1` resolves the `a` that the first submission
\* declared (the second one declared nothing at the top level).
C1_Witness ==
    /\ TopLevelStep
    /\ submissions = 3
    /\ LastSyntax = ExpressionStatementSyntax(APlusOne)
    /\ "a" \in session_names
    /\ previous # None
    /\ previous[1].statement.kind # "VariableDeclarationStatement"
    /\ statement[1].expression.kind = "BinaryExpression"
    /\ statement[1].expression.left.kind = "VariableExpression"
    /\ binder.diagnostics = << >>

\* The symbols a submission declares at its top level: the symbol of its
\* top-level declaration statement, nothing for a block or an expression.
NewlyDeclared(st) ==
    IF st.kind = "VariableDeclarationStatement" THEN {st.variable} ELSE {}

\* C2: the `variables` of the returned snapshot are exactly the symbols newly
\* declared at the top level by this submission and contain none of the
\* variables inherited from `previous`.
C2_OnlyNewVariables ==
    (pc = "idle" /\ global_scope # None) =>
        /\ global_scope[1].variables = NewlyDeclared(statement[1])
        /\ previous # None =>
              global_scope[1].variables \cap previous[1].variables = {}

\* C3: a later top-level declaration of a name that an earlier submission
\* declared is accepted without a "variable already declared" diagnostic and
\* lookups resolve to the newer symbol.
C3_LaterDeclarationShadows ==
    (/\ TopLevelStep
     /\ LastSyntax.kind = "VariableDeclarationStatement"
     /\ LastSyntax.identifier \in session_names) =>
        /\ \A i \in DOMAIN binder.diagnostics :
              binder.diagnostics[i].kind # "VariableAlreadyDeclared"
        /\ Visible(binder.scope, LastSyntax.identifier) = Some(statement[1].variable)

\* C4: declaring a name the current scope already declares reports exactly
\* one "variable already declared" diagnostic; the bound statement is a
\* VariableDeclaration carrying the symbol of this (second) declaration; the
\* scope is unchanged, so the name still denotes the first symbol.
C4_DuplicateDeclaration ==
    (/\ StatementStep
     /\ LastSyntax.kind = "VariableDeclarationStatement"
     /\ \E v \in Before.scope.variables : v.name = LastSyntax.identifier) =>
        LET first == CHOOSE v \in Before.scope.variables : v.name = LastSyntax.identifier
            own == VariableSymbol(LastSyntax.identifier,
                                  LastSyntax.keyword = "LetKeyword",
                                  LastSyntax.initializer.value.kind)
        IN  /\ LastReported =
                  << Diagnostic("VariableAlreadyDeclared", LastSyntax.identifier, << >>) >>
            /\ LastBound.kind = "VariableDeclarationStatement"
            /\ LastBound.variable = own
            /\ binder.scope = Before.scope
            /\ Visible(binder.scope, LastSyntax.identifier) = Some(first)

\* Inside a block, `a` is declared a second time with another type and
\* another keyword than the first time.
C4_Witness ==
    /\ StatementStep
    /\ frames # << >>
    /\ LastSyntax.kind = "VariableDeclarationStatement"
    /\ \E v \in Before.scope.variables :
          /\ v.name = LastSyntax.identifier
          /\ v.kind # LastBound.variable.kind
          /\ v.is_read_only # LastBound.variable.is_read_only
    /\ Len(LastReported) = 1

\* C5: block scoping.  A name reference resolves to the symbol of the
\* innermost scope declaring the name (the inner symbol after a
\* redeclaration in a nested block, without diagnostic) and is undefined when
\* no scope of the chain declares it; when a block is closed the binder's
\* scope is again the scope the block was entered in.
C5_NameResolution ==
    ExpressionStep("NameExpression") =>
        LET name == LastSyntax.expression.identifier
            symbol == Visible(Before.scope, name)
        IN  /\ symbol # None =>
                  /\ LastBound.expression = BoundVariableExpression(symbol[1])
                  /\ LastReported = << >>
            /\ symbol = None =>
                  /\ LastBound.expression.kind # "VariableExpression"
                  /\ Kinds(LastReported) = << "UndefinedName" >>
            /\ binder.scope = Before.scope

C5_BlockScoping ==
    /\ [] C5_NameResolution
    /\ [][(pc = "statement" /\ frames # << >> /\ Len(frames') < Len(frames)) =>
              binder'.scope = frames[Len(frames)].entered]_vars

\* After `let a = .. { var a = .. }` with two different symbols, the nested
\* block is closed and `a` resolves to the outer symbol again.
C5_Witness ==
    /\ pc = "statement"
    /\ frames # << >>
    /\ LET st == frames[Len(frames)].statements
       IN  /\ Len(st) = 3
           /\ st[1].kind = "VariableDeclarationStatement"
           /\ st[2].kind = "BlockStatement"
           /\ Len(st[2].statements) = 1
           /\ st[2].statements[1].kind = "VariableDeclarationStatement"
           /\ st[2].statements[1].variable.name = st[1].variable.name
           /\ st[2].statements[1].variable # st[1].variable
           /\ st[3] = BoundExpressionStatement(BoundVariableExpression(st[1].variable))
           /\ binder.scope.variables = {st[1].variable}

\* ------------------------------------------------------------------------
\* Expression properties (specification SpecExpr)
\* ------------------------------------------------------------------------
\* The two diagnostic cases of an assignment whose right-hand side `rhs`
\* bound without diagnostics, `target` being what the name denotes.
AssignmentCases(e, rhs, target) ==
    LET type == get_type(rhs.expression)
        result == LastBound.expression
    IN  /\ (/\ target # None
            /\ target[1].kind = "Number"
            /\ ~target[1].is_read_only
            /\ type = "Boolean") =>
               /\ LastReported = << Diagnostic("CannotConvert", "", <<"Boolean", "Number">>) >>
               /\ result = rhs.expression
        /\ (/\ target # None
            /\ target[1].kind = "Number"
            /\ target[1].is_read_only
            /\ type = "Number") =>
               /\ LastReported = << Diagnostic("CannotAssign", e.identifier, << >>) >>
               /\ result = BoundAssignmentExpression(target[1], rhs.expression)

\* C6 as stated: assignment binding, for a right-hand side that binds
\* without diagnostics.  Boolean to a mutable Number variable: exactly
\* "cannot convert", the result is the bound right-hand side, no Assignment
\* node; Number to a `let` Number variable: exactly "cannot assign", and an
\* Assignment node; the result is an Assignment node if and only if the
\* target is found in the scope chain and the right-hand type is its
\* declared type.
C6_AsStated ==
    ExpressionStep("AssignmentExpression") =>
        LET e == LastSyntax.expression
            rhs == bind_expression(Before, e.expression)
            target == Visible(Before.scope, e.identifier)
        IN  rhs.binder.diagnostics = Before.diagnostics =>
              /\ AssignmentCases(e, rhs, target)
              /\ (LastBound.expression.kind = "AssignmentExpression")
                 <=> (target # None /\ get_type(rhs.expression) = target[1].kind)

\* C6 amended: as stated, with "Assignment node" read as the Assignment
\* node of this assignment: the result is the Assignment node of the target
\* over the bound right-hand side if and only if the target is found in the
\* scope chain and the right-hand type is its declared type (a right-hand
\* side that is itself an assignment is returned as it is otherwise).
C6_Assignment ==
    ExpressionStep("AssignmentExpression") =>
        LET e == LastSyntax.expression
            rhs == bind_expression(Before, e.expression)
            target == Visible(Before.scope, e.identifier)
        IN  rhs.binder.diagnostics = Before.diagnostics =>
              /\ AssignmentCases(e, rhs, target)
              /\ (/\ target # None
                  /\ LastBound.expression =
                        BoundAssignmentExpression(target[1], rhs.expression))
                 <=> (target # None /\ get_type(rhs.expression) = target[1].kind)

\* `a = true` after `var a = 1`
C6_Witness ==
    /\ ExpressionStep("AssignmentExpression")
    /\ LastSyntax.expression = AssignmentExpressionSyntax("a", True)
    /\ Visible(Before.scope, "a") = Some(VariableSymbol("a", FALSE, "Number"))
    /\ Kinds(LastReported) = << "CannotConvert" >>
    /\ LastBound.expression = BoundLiteralExpression(Boolean(TRUE))

Undeclared(scope, name) ==
    \A i \in DOMAIN ScopeChain(scope) : \A v \in ScopeChain(scope)[i] : v.name # name

\* C7: a reference to a name that no scope of the chain declares reports
\* exactly one "undefined name" diagnostic and is bound to the Literal
\* Number 0, never to a Variable node; the scope is unchanged.
C7_UndefinedName ==
    (/\ ExpressionStep("NameExpression")
     /\ Undeclared(Before.scope, LastSyntax.expression.identifier)) =>
        /\ LastReported =
              << Diagnostic("UndefinedName", LastSyntax.expression.identifier, << >>) >>
        /\ LastBound = BoundExpressionStatement(BoundLiteralExpression(Number(0)))
        /\ get_type(LastBound.expression) = "Number"
        /\ binder.scope = Before.scope

\* `b` referenced in a nested block while only `a` is declared
C7_Witness ==
    /\ ExpressionStep("NameExpression")
    /\ LastSyntax.expression = NameB
    /\ frames # << >>
    /\ Visible(Before.scope, "a") # None
    /\ Undeclared(Before.scope, "b")
    /\ Len(LastReported) = 1

Range(f) == {f[i] : i \in DOMAIN f}

RECURSIVE WellFormedExpression(_, _)
WellFormedExpression(e, scope) ==
    CASE e.kind = "BinaryExpression" ->
            /\ WellFormedExpression(e.left, scope)
            /\ WellFormedExpression(e.right, scope)
            /\ e.operator \in Range(BINARY_OPERATORS)
            /\ e.operator.left_type = get_type(e.left)
            /\ e.operator.right_type = get_type(e.right)
      [] e.kind = "UnaryExpression" ->
            /\ WellFormedExpression(e.operand, scope)
            /\ e.operator \in Range(UNARY_OPERATORS)
            /\ e.operator.operand_type = get_type(e.operand)
      [] e.kind = "LiteralExpression" -> TRUE
      [] e.kind = "VariableExpression" -> Visible(scope, e.variable.name) = Some(e.variable)
      [] e.kind = "AssignmentExpression" ->
            /\ WellFormedExpression(e.expression, scope)
            /\ Visible(scope, e.variable.name) = Some(e.variable)
            /\ get_type(e.expression) = e.variable.kind

\* A bound statement checked in the scope it was bound in: whether it is
\* well formed, and the scope after it.
RECURSIVE WellFormedStatement(_, _)
RECURSIVE WellFormedStatements(_, _, _)
WellFormedStatements(statements, i, checked) ==
    IF i > Len(statements) THEN checked
    ELSE LET c == WellFormedStatement(statements[i], checked.scope)
         IN  WellFormedStatements(statements, i + 1,
                                  [ok |-> checked.ok /\ c.ok, scope |-> c.scope])

WellFormedStatement(st, scope) ==
    CASE st.kind = "BlockStatement" ->
            [ok |-> WellFormedStatements(st.statements, 1,
                        [ok |-> TRUE, scope |-> [variables |-> {}, parent |-> Some(scope)]]).ok,
             scope |-> scope]
      [] st.kind = "ExpressionStatement" ->
            [ok |-> WellFormedExpression(st.expression, scope), scope |-> scope]
      [] st.kind = "VariableDeclarationStatement" ->
            [ok |-> /\ WellFormedExpression(st.initializer, scope)
                    /\ st.variable.kind = get_type(st.initializer),
             scope |-> IF \E v \in scope.variables : v.name = st.variable.name
                       THEN scope
                       ELSE [scope EXCEPT !.variables = @ \cup {st.variable}]]

\* C8: in every bound tree the binder returns, also for erroneous input,
\* every Binary and Unary node carries a table row matching its operand
\* types, every Variable and Assignment node carries the symbol its name
\* denotes in the scope chain at that point, and every Assignment node's
\* expression has the variable's declared type.
C8_BoundTreeInvariant ==
    /\ StatementStep => WellFormedStatement(LastBound, Before.scope).ok
    /\ pc = "collect" =>
          WellFormedStatement(statement[1], create_parent_scopes(previous)).ok

\* The tree returned for `{ var a = 1  (a = 1) + b }`
C8_Witness ==
    /\ pc = "collect"
    /\ statement[1].kind = "BlockStatement"
    /\ Len(statement[1].statements) = 2
    /\ statement[1].statements[1].kind = "VariableDeclarationStatement"
    /\ statement[1].statements[2].kind = "ExpressionStatement"
    /\ LET e == statement[1].statements[2].expression
       IN  /\ e.kind = "BinaryExpression"
           /\ e.left.kind = "AssignmentExpression"
           /\ e.right = BoundLiteralExpression(Number(0))
    /\ Kinds(binder.diagnostics) = << "UndefinedName" >>

NoBinaryRow(token, left_type, right_type) ==
    \A row \in Range(BINARY_OPERATORS) :
        ~(row.syntax_kind = token /\ row.left_type = left_type /\ row.right_type = right_type)

NoUnaryRow(token, operand_type) ==
    \A row \in Range(UNARY_OPERATORS) :
        ~(row.syntax_kind = token /\ row.operand_type = operand_type)

\* C9: a binary operator whose operand types match no table row reports
\* exactly one "undefined binary operator" diagnostic naming both types
\* (after the operands' own diagnostics) and the result is the bound left
\* operand; `1 + true` gives that one diagnostic and the Literal 1.  A unary
\* operator without row reports exactly one diagnostic and the result is the
\* bound operand.
C9_UndefinedOperator ==
    /\ ExpressionStep("BinaryExpression") =>
          LET e == LastSyntax.expression
              l == bind_expression(Before, e.left)
              r == bind_expression(l.binder, e.right)
              lt == get_type(l.expression)
              rt == get_type(r.expression)
          IN  /\ NoBinaryRow(e.operator_token, lt, rt) =>
                    /\ LastBound.expression = l.expression
                    /\ binder.diagnostics =
                          Append(r.binder.diagnostics,
                                 Diagnostic("UndefinedBinaryOperator", e.operator_token,
                                            <<lt, rt>>))
              /\ e = BinaryExpressionSyntax(One, "PlusToken", True) =>
                    /\ LastBound.expression = BoundLiteralExpression(Number(1))
                    /\ LastReported =
                          << Diagnostic("UndefinedBinaryOperator", "PlusToken",
                                        <<"Number", "Boolean">>) >>
    /\ ExpressionStep("UnaryExpression") =>
          LET e == LastSyntax.expression
              o == bind_expression(Before, e.operand)
              t == get_type(o.expression)
          IN  NoUnaryRow(e.operator_token, t) =>
                /\ LastBound.expression = o.expression
                /\ binder.diagnostics =
                      Append(o.binder.diagnostics,
                             Diagnostic("UndefinedUnaryOperator", e.operator_token, <<t>>))

\* `1 + true`
C9_Witness ==
    /\ ExpressionStep("BinaryExpression")
    /\ LastSyntax.expression = BinaryExpressionSyntax(One, "PlusToken", True)
    /\ Kinds(LastReported) = << "UndefinedBinaryOperator" >>
    /\ LastBound.expression.kind = "LiteralExpression"

\* The diagnostics an expression reports when bound alone in a scope
Alone(scope, e) == bind_expression(Binder_new(scope), e).binder.diagnostics

IsPrefix(p, q) == Len(p) <= Len(q) /\ SubSeq(q, 1, Len(p)) = p

\* The diagnostics of a node are those of its children, in binding order,
\* followed by at most the node's own.
RECURSIVE Batch(_, _)
Batch(scope, e) ==
    LET all == Alone(scope, e)
        Own(children) == Kinds(Reported(all, children))
    IN  CASE e.kind = "BinaryExpression" ->
                LET children == Alone(scope, e.left) \o Alone(scope, e.right)
                IN  /\ Batch(scope, e.left)
                    /\ Batch(scope, e.right)
                    /\ IsPrefix(children, all)
                    /\ Own(children) \in {<< >>, << "UndefinedBinaryOperator" >>}
          [] e.kind = "UnaryExpression" ->
                LET children == Alone(scope, e.operand)
                IN  /\ Batch(scope, e.operand)
                    /\ IsPrefix(children, all)
                    /\ Own(children) \in {<< >>, << "UndefinedUnaryOperator" >>}
          [] e.kind = "ParenthesizedExpression" ->
                /\ Batch(scope, e.expression)
                /\ all = Alone(scope, e.expression)
          [] e.kind = "AssignmentExpression" ->
                LET children == Alone(scope, e.expression)
                IN  /\ Batch(scope, e.expression)
                    /\ IsPrefix(children, all)
                    /\ Own(children) \in {<< >>, << "UndefinedName" >>, << "CannotAssign" >>,
                                          << "CannotConvert" >>,
                                          << "CannotAssign", "CannotConvert" >>}
          [] e.kind = "NameExpression" -> Kinds(all) \in {<< >>, << "UndefinedName" >>}
          [] e.kind = "LiteralExpression" -> all = << >>

\* C10: batch diagnostics.  Binding a statement keeps the diagnostics
\* reported before it and appends those of its expression, which are, node
\* by node, the children's diagnostics in binding order (left, right; the
\* right-hand side of an assignment) followed by the node's own; a
\* declaration then appends at most "variable already declared".  So the
\* diagnostics of a right operand or of a right-hand side are reported also
\* when the enclosing node degrades to its fallback.
C10_BatchDiagnostics ==
    StatementStep =>
        LET e == IF LastSyntax.kind = "ExpressionStatement"
                 THEN LastSyntax.expression ELSE LastSyntax.initializer
            children == Before.diagnostics \o Alone(Before.scope, e)
            own == Kinds(Reported(binder.diagnostics, children))
        IN  /\ Batch(Before.scope, e)
            /\ IsPrefix(children, binder.diagnostics)
            /\ IF LastSyntax.kind = "ExpressionStatement"
               THEN own = << >>
               ELSE own \in {<< >>, << "VariableAlreadyDeclared" >>}

\* `-true + (1 + true)` after a statement that reported: both operands and
\* the operator report, after the earlier diagnostics.
C10_Witness ==
    /\ ExpressionStep("BinaryExpression")
    /\ Before.diagnostics # << >>
    /\ Kinds(LastReported) = << "UndefinedUnaryOperator", "UndefinedBinaryOperator",
                                "UndefinedBinaryOperator" >>

====
